---- MODULE Spec2Model ----
(***************************************************************************)
(* A model of emptyspace::bitmask_distribution (bitmask-distribution.hxx)  *)
(* and of the emptyspace::pnch benchmarking harness (pnch.hxx): stats_t,   *)
(* config and oneshot.                                                     *)
(*                                                                         *)
(* Fixed-width integers are bit vectors: sequences of w bits, the least     *)
(* significant first.  All arithmetic on them is two's complement, modulo  *)
(* 2^w.                                                                    *)
(***************************************************************************)
EXTENDS Integers, Sequences, FiniteSets, TLC

VARIABLES
  prog,     \* what became of the program: "running", "terminated", "crashed"
  obj,      \* which object the program exercises
  dist,     \* bitmask_distribution: [type, min, range], and the max it was built from
  gen,      \* the generator: the raw outputs it will produce next
  cfg,      \* pnch::config: its fields
  one,      \* pnch::oneshot: its fields
  inp,      \* stats_t: the arguments of the constructor call under test
  last      \* the last completed operation and what its caller observed

vars == <<prog, obj, dist, gen, cfg, one, inp, last>>

None == [op |-> "none"]

(***************************************************************************)
(* Bit vectors: a[i + 1] is bit i of a                                     *)
(***************************************************************************)
BvWidth(a) == Len(a)

\* the sequence <<f[i], ..., f[w]>>, written out
BvFrom(f, i, w) == SubSeq(f, i, w)

BvZero(w) == BvFrom([i \in 1..w |-> 0], 1, w)

BvOnes(w) == BvFrom([i \in 1..w |-> 1], 1, w)

\* the bit vector of a natural number n < 2^31
BvNat(n, w) ==
  BvFrom([i \in 1..w |-> IF i <= 31 THEN (n \div (2 ^ (i - 1))) % 2 ELSE 0], 1, w)

\* 2^k
BvPow2(k, w) == BvFrom([i \in 1..w |-> IF i = k + 1 THEN 1 ELSE 0], 1, w)

BvAnd(a, b) == BvFrom([i \in 1..Len(a) |-> a[i] * b[i]], 1, Len(a))

BvNot(a) == BvFrom([i \in 1..Len(a) |-> 1 - a[i]], 1, Len(a))

\* logical shift right by n
BvShr(a, n) ==
  BvFrom([i \in 1..Len(a) |-> IF i + n <= Len(a) THEN a[i + n] ELSE 0], 1, Len(a))

\* conversion of an unsigned value to a type w bits wide: truncation or zero extension
BvResize(a, w) == BvFrom([i \in 1..w |-> IF i <= Len(a) THEN a[i] ELSE 0], 1, w)

\* ripple-carry addition of the bits from position i up, with carry c coming in
RECURSIVE BvAddFrom(_, _, _, _)
BvAddFrom(a, b, i, c) ==
  IF i > Len(a)
    THEN <<>>
    ELSE LET s == a[i] + b[i] + c
         IN  <<s % 2>> \o BvAddFrom(a, b, i + 1, s \div 2)

\* a + b modulo 2^w
BvAdd(a, b) == BvAddFrom(a, b, 1, 0)

\* a - b modulo 2^w
BvSub(a, b) == BvAddFrom(a, BvNot(b), 1, 1)

\* -a modulo 2^w
BvNeg(a) == BvAddFrom(BvZero(Len(a)), BvNot(a), 1, 1)

\* a < b on the bits up to position i, compared from the top
RECURSIVE BvULessFrom(_, _, _)
BvULessFrom(a, b, i) ==
  IF i = 0 THEN FALSE
  ELSE IF a[i] # b[i] THEN a[i] < b[i]
  ELSE BvULessFrom(a, b, i - 1)

\* unsigned a < b
BvULess(a, b) == BvULessFrom(a, b, Len(a))

\* signed (two's complement) a < b
BvSLess(a, b) ==
  LET s == Len(a)
  IN  IF a[s] # b[s] THEN a[s] = 1 ELSE BvULess(a, b)

\* the number of zero bits above position i, counted from the top
RECURSIVE BvClzFrom(_, _)
BvClzFrom(a, i) ==
  IF i = 0 THEN Len(a)
  ELSE IF a[i] = 1 THEN Len(a) - i
  ELSE BvClzFrom(a, i - 1)

\* the number of leading zero bits of a
BvClz(a) == BvClzFrom(a, Len(a))

(***************************************************************************)
(* bitmask_distribution<Int>                                               *)
(***************************************************************************)
\* The integer types the template is instantiated with (LP64: std::uint64_t is
\* unsigned long, so unsigned long long is a different 64-bit type).
\* u64 says whether make_unsigned<Int>::type is std::uint64_t.
IntTypes ==
  { [name |-> "int8_t",             bits |-> 8,  signed |-> TRUE,  u64 |-> FALSE],
    [name |-> "uint8_t",            bits |-> 8,  signed |-> FALSE, u64 |-> FALSE],
    [name |-> "int16_t",            bits |-> 16, signed |-> TRUE,  u64 |-> FALSE],
    [name |-> "uint16_t",           bits |-> 16, signed |-> FALSE, u64 |-> FALSE],
    [name |-> "int",                bits |-> 32, signed |-> TRUE,  u64 |-> FALSE],
    [name |-> "unsigned",           bits |-> 32, signed |-> FALSE, u64 |-> FALSE],
    [name |-> "int64_t",            bits |-> 64, signed |-> TRUE,  u64 |-> TRUE],
    [name |-> "uint64_t",           bits |-> 64, signed |-> FALSE, u64 |-> TRUE],
    [name |-> "long long",          bits |-> 64, signed |-> TRUE,  u64 |-> FALSE],
    [name |-> "unsigned long long", bits |-> 64, signed |-> FALSE, u64 |-> FALSE] }

\* a < b in result_type
Less(t, a, b) == IF t.signed THEN BvSLess(a, b) ELSE BvULess(a, b)

Leq(t, a, b) == a = b \/ Less(t, a, b)

\* __builtin_clz( 0 ) and __builtin_clzll( 0 ) are undefined: the builtin returns
\* an int, and which one is not fixed.  An lzcnt build gives the operand's
\* width; a bsr build leaves the destination register as it was and gives that
\* register xor 31, any int at all
ClzOfZero == Int

\* the operand of the builtin: x itself for std::uint64_t, and
\* static_cast<std::uint32_t>( x ) for every other type
ClzOperand(t, x) == IF t.u64 THEN x ELSE BvResize(x, 32)

\* detail::leading_zeros( x ) called with a range_type x of type t: the set of
\* results a build can produce
leading_zeros(t, x) ==
  IF ClzOperand(t, x) = BvZero(Len(ClzOperand(t, x)))
    THEN ClzOfZero
    ELSE {BvClz(ClzOperand(t, x))}

\* the width of the type the shift of the mask is evaluated in: a range_type
\* narrower than int is promoted to int
ShiftWidth(t) == IF t.bits < 32 THEN 32 ELSE t.bits

\* the shift counts the mask can be made with: n modulo the shift's width for
\* the results n of leading_zeros( x ).  The results of a count on zero are all
\* of Int, and every count below the width is the residue of one of them
ShiftCounts(t, x) ==
  IF ClzOperand(t, x) = BvZero(Len(ClzOperand(t, x)))
    THEN 0..(ShiftWidth(t) - 1)
    ELSE {n % ShiftWidth(t) : n \in leading_zeros(t, x)}

\* numeric_limits<range_type>::max() >> n.  A range_type narrower than int is
\* promoted to int before the shift, and the result converted back.  A count n
\* outside the operand's width (only a count on zero gives one) is undefined;
\* the shift instruction takes the count modulo the operand's width
Mask(t, n) ==
  IF t.bits < 32
    THEN BvResize(BvShr(BvResize(BvOnes(t.bits), 32), n % ShiftWidth(t)), t.bits)
    ELSE BvShr(BvOnes(t.bits), n % ShiftWidth(t))

\* the constructor: _min{ min }, _range{ static_cast<range_type>( max - min ) }
Construct(t, min, max) == [type |-> t, min |-> min, range |-> BvSub(max, min), max |-> max]

\* the loop with its condition dropped: the first masked output is taken
RejectLoopNoReject(g, k, mask, range) ==
  IF k > Len(g)
    THEN [done |-> FALSE, used |-> Len(g)]
    ELSE [done |-> TRUE, used |-> k, x |-> BvAnd(g[k], mask)]

\* do { x = gen() & mask; } while( x > _range ): the outputs g[k], g[k+1], ... are
\* consumed until one is accepted; done is FALSE when g ends first
RECURSIVE RejectLoop(_, _, _, _)
RejectLoop(g, k, mask, range) ==
  IF k > Len(g)
    THEN [done |-> FALSE, used |-> Len(g)]
    ELSE LET x == BvAnd(g[k], mask)
         IN  IF BvULess(range, x)
               THEN RejectLoop(g, k + 1, mask, range)
               ELSE [done |-> TRUE, used |-> k, x |-> x]

\* return static_cast<result_type>( x ) + _min, after the loop ended with r
Accepted(d, mask, r) ==
  IF r.done
    THEN [done |-> TRUE, used |-> r.used, mask |-> mask, x |-> r.x,
          value |-> BvAdd(r.x, d.min)]
    ELSE [done |-> FALSE, used |-> r.used]

\* the masked rejection loop of operator(), with the mask already computed
DrawMasked(d, g, mask) == Accepted(d, mask, RejectLoop(g, 1, mask, d.range))

\* operator()( gen ) with leading_zeros returning n: what it returns and how many
\* generator outputs it consumed
Draw(d, g, n) ==
  IF d.range = BvZero(d.type.bits)
    THEN IF g = <<>> THEN [done |-> FALSE, used |-> 0]
                     ELSE [done |-> TRUE, used |-> 1, mask |-> BvZero(d.type.bits),
                           x |-> g[1], value |-> g[1]]
    ELSE DrawMasked(d, g, Mask(d.type, n))

\* the sign bit of a
BvSign(a) == a[Len(a)]

\* whether max - min, evaluated in result_type after integer promotion, leaves
\* the signed range: operands narrower than int are promoted to int, where
\* their difference always fits; unsigned arithmetic wraps and never overflows
SubOverflows(t, max, min) ==
  /\ t.signed
  /\ t.bits >= 32
  /\ BvSign(max) # BvSign(min)
  /\ BvSign(BvSub(max, min)) # BvSign(max)

\* whether static_cast<result_type>( x ) + _min leaves the signed range, the
\* cast keeping x's bits
AddOverflows(t, x, min) ==
  /\ t.signed
  /\ t.bits >= 32
  /\ BvSign(x) = BvSign(min)
  /\ BvSign(BvAdd(x, min)) # BvSign(x)

\* ---- the sampler's inputs ----
\* the longest sequence of raw outputs a generator is followed for
GenLen == 2

\* values min and max are drawn from, in a type w bits wide: small ones, negative
\* ones (large ones of an unsigned type), the extremes (in 64 bits, 0 and 2^63
\* are 2^63 apart, a range whose low 32 bits are all zero), and for 64 bits a
\* value whose low 32 bits say little about it
RangeValues(w) ==
  { BvZero(w), BvNat(23, w), BvNeg(BvNat(23, w)), BvNeg(BvNat(42, w)),
    BvShr(BvOnes(w), 1), BvPow2(w - 1, w) }
  \cup (IF w = 64 THEN {BvAdd(BvPow2(34, w), BvNat(1, w))} ELSE {})

\* raw generator outputs, w bits wide
RawOutputs(w) == { BvNat(5, w), BvNat(25, w), BvOnes(w) }

Idle == [op |-> "idle"]

InitSampler ==
  /\ prog = "running"
  /\ obj = "sampler"
  /\ \E t \in IntTypes : \E min, max \in RangeValues(t.bits) :
       /\ Less(t, min, max)
       /\ dist = Construct(t, min, max)
       /\ gen \in [1..GenLen -> RawOutputs(t.bits)]
  /\ cfg = Idle
  /\ one = Idle
  /\ inp = Idle
  /\ last = None

\* auto const x = dist( gen );
DrawStep ==
  /\ obj = "sampler"
  /\ prog = "running"
  /\ \E n \in ShiftCounts(dist.type, dist.range) :
       /\ \E r \in {Draw(dist, gen, n)} :
         /\ r.done
         /\ gen' = SubSeq(gen, r.used + 1, Len(gen))
         /\ last' = [op |-> "draw", value |-> r.value, mask |-> r.mask, x |-> r.x,
                     used |-> r.used, shift |-> n]
  /\ UNCHANGED <<prog, obj, dist, cfg, one, inp>>

NextSampler == DrawStep

SpecSampler == InitSampler /\ [][NextSampler]_vars

(***************************************************************************)
(* double                                                                  *)
(* A finite double is the fraction <<n, d>> in lowest terms, d > 0; the    *)
(* infinities are <<1, 0>> and <<-1, 0>>, and NaN is <<0, 0>>.  The         *)
(* arithmetic is exact: the rounding of a result that is no binary         *)
(* fraction is left out, the special values are kept.                      *)
(***************************************************************************)
RECURSIVE Gcd(_, _)
Gcd(a, b) == IF b = 0 THEN a ELSE Gcd(b, a % b)

Abs(n) == IF n < 0 THEN -n ELSE n

Sign(n) == IF n < 0 THEN -1 ELSE IF n > 0 THEN 1 ELSE 0

\* n / d for d >= 0, in lowest terms
DNorm(n, d) ==
  IF d = 0 THEN <<Sign(n), 0>>
  ELSE <<n \div Gcd(Abs(n), d), d \div Gcd(Abs(n), d)>>

\* static_cast<double>( n )
D(n) == <<n, 1>>

DNaN == <<0, 0>>

DIsNaN(a) == a = DNaN

DAdd(a, b) ==
  IF a[2] = 0 /\ b[2] = 0 THEN (IF a[1] = b[1] THEN a ELSE DNaN)
  ELSE IF a[2] = 0 THEN a
  ELSE IF b[2] = 0 THEN b
  ELSE DNorm(a[1] * b[2] + b[1] * a[2], a[2] * b[2])

DNeg(a) == <<-a[1], a[2]>>

DSub(a, b) == DAdd(a, DNeg(b))

DMul(a, b) == DNorm(a[1] * b[1], a[2] * b[2])

\* 1 / b, as a fraction with a denominator >= 0
DInv(b) == IF b[1] < 0 THEN <<-b[2], -b[1]>> ELSE <<b[2], b[1]>>

DDiv(a, b) == DMul(a, DInv(b))

\* a < b; false when either is NaN
DLess(a, b) ==
  IF DIsNaN(a) \/ DIsNaN(b) THEN FALSE
  ELSE IF a[2] = 0 /\ b[2] = 0 THEN a[1] < b[1]
  ELSE a[1] * b[2] < b[1] * a[2]

\* std::sqrt( a ), kept as a term
DSqrt(a) == <<"sqrt", a>>

(***************************************************************************)
(* detail::stats_t                                                         *)
(***************************************************************************)
\* one step of std::sort's result: x put into the ascending sequence s
RECURSIVE SortedInsert(_, _)
SortedInsert(x, s) ==
  IF s = <<>> THEN <<x>>
  ELSE IF DLess(x, Head(s)) THEN <<x>> \o s
  ELSE <<Head(s)>> \o SortedInsert(x, Tail(s))

\* std::sort( _results.begin(), _results.end() )
RECURSIVE Sort(_)
Sort(s) == IF s = <<>> THEN <<>> ELSE SortedInsert(Head(s), Sort(Tail(s)))

\* the loop _results[i] /= scale; _results[i] -= offset
Normalize(s, scale, offset) ==
  [i \in 1..Len(s) |-> DSub(DDiv(s[i], scale), offset)]

\* _results[i], i counted from 0; leaving the vector is undefined
InBounds(v, i) == 0 <= i /\ i < Len(v)

At(v, i) == IF InBounds(v, i) THEN v[i + 1] ELSE DNaN

\* the Kahan summation loop over the summands y[i], ..., y[Len(y)]
RECURSIVE KahanSum(_, _, _, _)
KahanSum(ys, i, sum, c) ==
  IF i > Len(ys) THEN sum
  ELSE KahanSum(ys, i + 1, DAdd(sum, DSub(ys[i], c)),
                DSub(DSub(DAdd(sum, DSub(ys[i], c)), sum), DSub(ys[i], c)))

\* ( _results[i] - _avg ) * ( _results[i] - _avg )
SquaredDeviations(v, avg) ==
  [i \in 1..Len(v) |-> DMul(DSub(v[i], avg), DSub(v[i], avg))]

Half == <<1, 2>>
Quarter == <<1, 4>>
ThreeQuarters == <<3, 4>>

\* the indices of _results the quartile code reads, for count elements
QuartileReads(count) ==
  (IF count % 2 = 0 THEN {count \div 2 - 1, count \div 2} ELSE {count \div 2})
  \cup (IF count % 2 = 0
          THEN (IF count % 4 = 0
                  THEN {count \div 4 - 1, count \div 4,
                        count \div 2 + count \div 4 - 1, count \div 2 + count \div 4}
                  ELSE {count \div 4, count \div 2 + count \div 4})
        ELSE IF count % 4 = 1
          THEN {count \div 4 - 1, count \div 4,
                (count \div 4) * 3, (count \div 4) * 3 + 1}
          ELSE {count \div 4, count \div 4 + 1,
                (count \div 4) * 3 + 1, (count \div 4) * 3 + 2})

\* _q[1]
Q2Of(v, count) ==
  IF count % 2 = 0
    THEN DMul(DAdd(At(v, count \div 2 - 1), At(v, count \div 2)), Half)
    ELSE At(v, count \div 2)

\* _q[0] with the lower neighbour of the 4k+3 case taken one place too low
Q1OfOffByOne(v, count) ==
  IF count % 2 = 0
    THEN (IF count % 4 = 0
            THEN DMul(DAdd(At(v, count \div 4 - 1), At(v, count \div 4)), Half)
            ELSE At(v, count \div 4))
  ELSE IF count % 4 = 1
    THEN DAdd(DMul(At(v, count \div 4 - 1), Quarter),
              DMul(At(v, count \div 4), ThreeQuarters))
  ELSE DAdd(DMul(At(v, count \div 4 - 1), ThreeQuarters),
            DMul(At(v, count \div 4), Quarter))

\* _q[0]
Q1Of(v, count) ==
  IF count % 2 = 0
    THEN (IF count % 4 = 0
            THEN DMul(DAdd(At(v, count \div 4 - 1), At(v, count \div 4)), Half)
            ELSE At(v, count \div 4))
  ELSE IF count % 4 = 1
    THEN DAdd(DMul(At(v, count \div 4 - 1), Quarter),
              DMul(At(v, count \div 4), ThreeQuarters))
  ELSE DAdd(DMul(At(v, count \div 4), ThreeQuarters),
            DMul(At(v, count \div 4 + 1), Quarter))

\* _q[2]
Q3Of(v, count) ==
  IF count % 2 = 0
    THEN (IF count % 4 = 0
            THEN DMul(DAdd(At(v, count \div 2 + count \div 4 - 1),
                           At(v, count \div 2 + count \div 4)), Half)
            ELSE At(v, count \div 2 + count \div 4))
  ELSE IF count % 4 = 1
    THEN DAdd(DMul(At(v, (count \div 4) * 3), ThreeQuarters),
              DMul(At(v, (count \div 4) * 3 + 1), Quarter))
  ELSE DAdd(DMul(At(v, (count \div 4) * 3 + 1), Quarter),
            DMul(At(v, (count \div 4) * 3 + 2), ThreeQuarters))

\* the constructor's early return for count == 1
SingleSample(v) ==
  [min |-> At(v, 0), max |-> At(v, 0), q |-> <<At(v, 0), At(v, 0), At(v, 0)>>,
   avg |-> At(v, 0), variance |-> D(0), ub |-> FALSE]

\* the constructor past the early return, with the mean computed
SeveralSamples(v, count, avg) ==
  [min |-> At(v, 0), max |-> At(v, count - 1),
   q |-> <<Q1Of(v, count), Q2Of(v, count), Q3Of(v, count)>>,
   avg |-> avg,
   variance |-> DDiv(KahanSum(SquaredDeviations(v, avg), 1, D(0), D(0)), D(count - 1)),
   ub |-> \E i \in {0, count - 1} \cup QuartileReads(count) : ~InBounds(v, i)]

\* the constructor without its early return for count == 1
StatsOfSortedNoEarlyReturn(v) ==
  IF Len(v) = 0 THEN [ub |-> TRUE]
  ELSE SeveralSamples(v, Len(v), DDiv(KahanSum(v, 1, D(0), D(0)), D(Len(v))))

\* the constructor on the sorted and normalized vector v.  With no element,
\* _results[0] is read all the same: undefined behaviour, and no statistics
StatsOfSorted(v) ==
  IF Len(v) = 0 THEN [ub |-> TRUE]
  ELSE IF Len(v) = 1 THEN SingleSample(v)
  ELSE SeveralSamples(v, Len(v), DDiv(KahanSum(v, 1, D(0), D(0)), D(Len(v))))

\* stats_t( results, inner_loop_cnt, offset )
stats_t(results, inner_loop_cnt, offset) ==
  StatsOfSorted(Normalize(Sort(results), D(inner_loop_cnt), offset))

(***************************************************************************)
(* detail::perfc                                                           *)
(***************************************************************************)
\* std::memset( &_rusage_begin, 0, sizeof( _rusage_begin ) )
ZeroUsage == [ru_maxrss |-> 0, ru_minflt |-> 0, ru_majflt |-> 0]

\* explicit perfc()
NewPerfc == [rusage_begin |-> ZeroUsage, rusage_end |-> ZeroUsage]

\* what getrusage( RUSAGE_SELF, &ru ) can do: rc is its return value, ru what it
\* left in the structure
GetrusageOutcomes ==
  { [rc |-> 0,  ru |-> [ru_maxrss |-> 2, ru_minflt |-> 1, ru_majflt |-> 0]],
    [rc |-> -1, ru |-> [ru_maxrss |-> 7, ru_minflt |-> 7, ru_majflt |-> 7]] }

\* begin() and end() without the memset of the failure branch
SnapshotNotZeroed(g) == g.ru

\* the snapshot begin() and end() leave after getrusage did g
Snapshot(g) == IF g.rc # 0 THEN ZeroUsage ELSE g.ru

\* what begin() and end() write to std::cerr after getrusage did g
SnapshotErr(g) == IF g.rc # 0 THEN <<"getrusage() failed">> ELSE <<>>

\* perfc::report_to( os, name, ru )
ReportUsage(name, ru) ==
  << <<"  ", name, "/max resident set size = ", ru.ru_maxrss>>,
     <<"  ", name, "/minor page faults = ", ru.ru_minflt>>,
     <<"  ", name, "/major page faults = ", ru.ru_majflt>> >>

\* perfc::report_to( os )
ReportPerfc(p) == ReportUsage("begin", p.rusage_begin) \o ReportUsage("end", p.rusage_end)

(***************************************************************************)
(* The user closure and the clock                                          *)
(***************************************************************************)
\* A closure is known by the invocation at which it throws: 0 is a closure that
\* never throws
MaxThrowAt == 2

Closures == 0..MaxThrowAt

\* whether the k-th invocation of the closure f throws
Throws(f, k) == f = k

\* what two readings of the steady clock can differ by, in nanoseconds
Deltas == {D(6), D(12)}

\* run without noexcept: the exception leaves run and reaches its caller
Propagates(threw) == IF threw THEN "exception" ELSE "returned"

\* run is declared noexcept: an exception leaving the closure reaches the
\* function's boundary and std::terminate is called
Noexcept(threw) == IF threw THEN "terminated" ELSE "returned"

(***************************************************************************)
(* pnch::config                                                            *)
(***************************************************************************)
\* _inner_loop_cnt{ 100'000 }
DefaultInnerLoopCnt == 100000

\* _outer_loop_cnt{ 23 }
DefaultOuterLoopCnt == 23

\* the loop counts a run is followed for
MaxInner == 2

MaxOuter == 3

\* std::unique_ptr<detail::stats_t> holding nothing
NoStats == [ub |-> TRUE]

NewConfig ==
  [perfc |-> NewPerfc, inner_loop_cnt |-> DefaultInnerLoopCnt,
   outer_loop_cnt |-> DefaultOuterLoopCnt, name |-> "", cached_stats |-> NoStats,
   offset |-> D(0), results |-> <<>>]

\* a reset that forgets to drop the cached statistics
config_reset_keeps_cache(c) == [c EXCEPT !.offset = D(0)]

\* config::reset()
config_reset(c) == [c EXCEPT !.cached_stats = NoStats, !.offset = D(0)]

\* no clear(): the samples stay
Keep(results) == results

\* _results.clear()
Clear(results) == <<>>

\* config::i( inner_loop_cnt )
config_i(c, inner_loop_cnt) ==
  [config_reset(c) EXCEPT !.results = Clear(c.results), !.inner_loop_cnt = inner_loop_cnt]

\* config::o( outer_loop_cnt )
config_o(c, outer_loop_cnt) ==
  [config_reset(c) EXCEPT !.results = Clear(c.results), !.outer_loop_cnt = outer_loop_cnt]

\* config::offset( offset )
config_offset(c, x) == [config_reset(c) EXCEPT !.offset = x]

\* for( j = 0; j < _inner_loop_cnt; ++j ) func(): calls counts the invocations of
\* the closure f so far; threw says that the last of them threw
RECURSIVE InnerLoop(_, _, _, _)
InnerLoop(j, inner, calls, f) ==
  IF j < inner
    THEN IF Throws(f, calls + 1)
           THEN [calls |-> calls + 1, threw |-> TRUE]
           ELSE InnerLoop(j + 1, inner, calls + 1, f)
    ELSE [calls |-> calls, threw |-> FALSE]

\* one pass of the outer loop after its inner loop ended with r
RECURSIVE OuterLoop(_, _, _, _, _, _)
OuterPass(k, c, r, results, deltas, f) ==
  IF r.threw
    THEN [calls |-> r.calls, threw |-> TRUE, results |-> results]
    ELSE OuterLoop(k + 1, c, r.calls, Append(results, deltas[k + 1]), deltas, f)

\* for( i = 0; i < _outer_loop_cnt; ++i ): deltas[k + 1] is what the clock
\* measures in pass k
OuterLoop(k, c, calls, results, deltas, f) ==
  IF k < c.outer_loop_cnt
    THEN OuterPass(k, c, InnerLoop(0, c.inner_loop_cnt, calls, f), results, deltas, f)
    ELSE [calls |-> calls, threw |-> FALSE, results |-> results]

\* config::run( name, func ) up to the end of its loops: gb is what getrusage
\* does in _perfc.begin()
RunLoops(c, name, gb, deltas, f) ==
  OuterLoop(0,
            [config_reset(c) EXCEPT !.name = name, !.perfc.rusage_begin = Snapshot(gb)],
            0, Clear(c.results), deltas, f)

\* config::run( name, func ): the fields after it, or at the moment the closure
\* threw; ge is what getrusage does in _perfc.end()
config_run(c, name, gb, ge, r) ==
  [config_reset(c) EXCEPT !.name = name,
                   !.results = r.results,
                   !.perfc.rusage_begin = Snapshot(gb),
                   !.perfc.rusage_end = IF r.threw THEN c.perfc.rusage_end
                                                   ELSE Snapshot(ge)]

\* for( auto x : _results ) total += x
RECURSIVE Total(_, _)
Total(results, k) ==
  IF k = 0 THEN D(0) ELSE DAdd(Total(results, k - 1), results[k])

\* config::report_to( os, pre ): the lines written, each the values inserted
config_report_to(c, st, pre) ==
  << <<"[benchmark | ", c.name, "]">>,
     <<IF pre = "" THEN "  stats" ELSE "  stats/", pre, "/total = ",
       Total(c.results, Len(c.results))>>,
     <<IF pre = "" THEN "  stats" ELSE "  stats/", pre, "/average = ", st.avg>>,
     <<IF pre = "" THEN "  stats" ELSE "  stats/", pre, "/stddev = ",
       DSqrt(st.variance)>> >>
  \o (IF c.offset # D(0)
        THEN << <<IF pre = "" THEN "  stats" ELSE "  stats/", pre, "/offset = ",
                  c.offset>> >>
        ELSE <<>>)
  \o << <<>> >>

\* ---- the configuration's inputs ----
Names == {"nothings"}

Offsets == {D(0), D(1)}

Prefixes == {""}

InitConfig ==
  /\ prog = "running"
  /\ obj = "config"
  /\ dist = Idle
  /\ gen = <<>>
  /\ cfg = NewConfig
  /\ one = Idle
  /\ inp = Idle
  /\ last = None

\* cfg.i( n )
I ==
  /\ obj = "config" /\ prog = "running"
  /\ \E n \in 0..MaxInner : cfg' = config_i(cfg, n)
  /\ last' = [op |-> "i"]
  /\ UNCHANGED <<prog, obj, dist, gen, one, inp>>

\* cfg.o( n )
O ==
  /\ obj = "config" /\ prog = "running"
  /\ \E n \in 0..MaxOuter : cfg' = config_o(cfg, n)
  /\ last' = [op |-> "o"]
  /\ UNCHANGED <<prog, obj, dist, gen, one, inp>>

\* cfg.offset( x )
Offset ==
  /\ obj = "config" /\ prog = "running"
  /\ \E x \in Offsets : cfg' = config_offset(cfg, x)
  /\ last' = [op |-> "offset"]
  /\ UNCHANGED <<prog, obj, dist, gen, one, inp>>

\* cfg.run( name, f ), followed for loop counts within MaxInner and MaxOuter
Run ==
  /\ obj = "config" /\ prog = "running"
  /\ cfg.inner_loop_cnt <= MaxInner
  /\ cfg.outer_loop_cnt <= MaxOuter
  /\ \E name \in Names, f \in Closures, gb, ge \in GetrusageOutcomes,
        deltas \in [1..cfg.outer_loop_cnt -> Deltas] :
       \E r \in {RunLoops(cfg, name, gb, deltas, f)} :
         /\ cfg' = config_run(cfg, name, gb, ge, r)
         /\ prog' = IF Noexcept(r.threw) = "terminated" THEN "terminated" ELSE prog
         /\ last' = [op |-> "run", calls |-> r.calls, threw |-> r.threw,
                     outcome |-> Noexcept(r.threw), gb |-> gb, ge |-> ge,
                     err |-> SnapshotErr(gb) \o (IF r.threw THEN <<>> ELSE SnapshotErr(ge))]
  /\ UNCHANGED <<obj, dist, gen, one, inp>>

\* config::stats() on c: the statistics it returns, computed when none are cached
config_stats(c) ==
  IF c.cached_stats = NoStats
    THEN stats_t(c.results, c.inner_loop_cnt, c.offset)
    ELSE c.cached_stats

\* a stats() that resets the configuration as the mutators do
config_cache_after_reset(c, st) == [config_reset(c) EXCEPT !.cached_stats = st]

\* _cached_stats = std::make_unique<detail::stats_t>( ... ): the fields after
\* stats() returned st
config_cache(c, st) == [c EXCEPT !.cached_stats = st]

\* cfg.stats(); over no sample the constructor's reads are undefined and the
\* program is lost
Stats ==
  /\ obj = "config" /\ prog = "running"
  /\ \E st \in {config_stats(cfg)} :
       IF st.ub
         THEN /\ prog' = "crashed"
              /\ last' = [op |-> "stats"]
              /\ cfg' = cfg
         ELSE /\ prog' = prog
              /\ last' = [op |-> "stats", st |-> st]
              /\ cfg' = config_cache(cfg, st)
  /\ UNCHANGED <<obj, dist, gen, one, inp>>

\* cfg.average()
Average ==
  /\ obj = "config" /\ prog = "running"
  /\ \E st \in {config_stats(cfg)} :
       IF st.ub
         THEN /\ prog' = "crashed"
              /\ last' = [op |-> "average"]
              /\ cfg' = cfg
         ELSE /\ prog' = prog
              /\ last' = [op |-> "average", ret |-> st.avg]
              /\ cfg' = config_cache(cfg, st)
  /\ UNCHANGED <<obj, dist, gen, one, inp>>

\* cfg.report_to( os, pre ), os empty before the call
ReportTo ==
  /\ obj = "config" /\ prog = "running"
  /\ \E pre \in Prefixes : \E st \in {config_stats(cfg)} :
       IF st.ub
         THEN /\ prog' = "crashed"
              /\ last' = [op |-> "report_to"]
              /\ cfg' = cfg
         ELSE /\ prog' = prog
              /\ last' = [op |-> "report_to", os |-> config_report_to(cfg, st, pre),
                          reused |-> cfg.cached_stats # NoStats, after |-> last.op]
              /\ cfg' = config_cache(cfg, st)
  /\ UNCHANGED <<obj, dist, gen, one, inp>>

NextConfig == I \/ O \/ Offset \/ Run \/ Stats \/ Average \/ ReportTo

SpecConfig == InitConfig /\ [][NextConfig]_vars

(***************************************************************************)
(* pnch::oneshot                                                           *)
(***************************************************************************)
Kilo == 1000

Mega == 1000000

Giga == 1000000000

\* what the steady clock can measure around one invocation, in nanoseconds
OneshotDeltas ==
  {D(0), D(Kilo - 1), D(Kilo), D(Kilo + 1), D(Mega - 1), D(Mega), D(Mega + 1),
   D(Giga - 1), D(Giga), D(Giga + 1)}

\* the value of a double that was never initialized: whatever its storage
\* held, any value of a double, and none in particular.  It is written as the
\* fraction with denominator -1, which is the value of no double
Indeterminate == <<0, -1>>

\* double _delta_t has no initializer
NewOneshot == [name |-> "", delta_t |-> Indeterminate, perfc |-> NewPerfc]

\* oneshot::run( name, f ): the fields after it, or at the moment f threw
oneshot_run(c, name, gb, ge, delta, threw) ==
  IF threw
    THEN [c EXCEPT !.name = name, !.perfc.rusage_begin = Snapshot(gb)]
    ELSE [c EXCEPT !.name = name, !.perfc.rusage_begin = Snapshot(gb),
                   !.delta_t = delta, !.perfc.rusage_end = Snapshot(ge)]

\* the delta_t line of oneshot::report_to: the scaled time and its unit
ScaledDelta(t) ==
  IF DLess(D(Giga), t) THEN <<"  delta_t = ", DDiv(t, D(Giga)), "s">>
  ELSE IF DLess(D(Mega), t) THEN <<"  delta_t = ", DDiv(t, D(Mega)), "ms">>
  ELSE IF DLess(D(Kilo), t) THEN <<"  delta_t = ", DDiv(t, D(Kilo)), "us">>
  ELSE <<"  delta_t = ", t, "ns">>

\* the delta_t lines report_to can write for t: an indeterminate t can take
\* each of the four branches, and what is written is as indeterminate as t
ScaledDeltaLines(t) ==
  IF t = Indeterminate
    THEN {<<"  delta_t = ", Indeterminate, unit>> : unit \in {"s", "ms", "us", "ns"}}
    ELSE {ScaledDelta(t)}

\* oneshot::report_to( os ): the lines written, line being the delta_t line
oneshot_report_to(c, line) ==
  << <<"[oneshot | ", c.name, "]">>, line >> \o ReportPerfc(c.perfc)

InitOneshot ==
  /\ prog = "running"
  /\ obj = "oneshot"
  /\ dist = Idle
  /\ gen = <<>>
  /\ cfg = Idle
  /\ one = NewOneshot
  /\ inp = Idle
  /\ last = None

\* a run that invokes the closure once more, to warm up, before it measures
oneshot_run_steps_warmup(threw) ==
  IF threw THEN <<"f">>
  ELSE <<"f", "begin", "now", "f", "now", "delta_t", "end">>

\* oneshot::run( name, f ): what its body does, in order, up to the invocation
\* that throws: _perfc.begin(), perfc::now(), f(), perfc::now(), the store to
\* _delta_t, _perfc.end()
oneshot_run_steps(threw) ==
  IF threw THEN <<"begin", "now", "f">>
  ELSE <<"begin", "now", "f", "now", "delta_t", "end">>

IsCall(step) == step = "f"

\* one.run( name, f )
OneshotRun ==
  /\ obj = "oneshot" /\ prog = "running"
  /\ \E name \in Names, f \in Closures, gb, ge \in GetrusageOutcomes,
        delta \in OneshotDeltas :
       \E steps \in {oneshot_run_steps(Throws(f, 1))} :
       \E r \in {[calls |-> Len(SelectSeq(steps, IsCall)), threw |-> Throws(f, 1)]} :
         /\ one' = oneshot_run(one, name, gb, ge, delta, r.threw)
         /\ prog' = IF Noexcept(r.threw) = "terminated" THEN "terminated" ELSE prog
         /\ last' = [op |-> "oneshot_run", calls |-> r.calls, threw |-> r.threw,
                     outcome |-> Noexcept(r.threw), steps |-> steps,
                     gb |-> gb, ge |-> ge, delta |-> delta,
                     err |-> SnapshotErr(gb) \o (IF r.threw THEN <<>> ELSE SnapshotErr(ge))]
  /\ UNCHANGED <<obj, dist, gen, cfg, inp>>

\* one.report_to( os ), os empty before the call
OneshotReportTo ==
  /\ obj = "oneshot" /\ prog = "running"
  /\ \E line \in ScaledDeltaLines(one.delta_t) :
       last' = [op |-> "oneshot_report_to", os |-> oneshot_report_to(one, line)]
  /\ UNCHANGED <<prog, obj, dist, gen, cfg, one, inp>>

NextOneshot == OneshotRun \/ OneshotReportTo

SpecOneshot == InitOneshot /\ [][NextOneshot]_vars

\* a program that exercises either harness
InitHarness == InitConfig \/ InitOneshot

NextHarness == NextConfig \/ NextOneshot

SpecHarness == InitHarness /\ [][NextHarness]_vars

(***************************************************************************)
(* The sampler's claims                                                    *)
(***************************************************************************)
\* the type of the sampler under test
TypeNamed(n) == CHOOSE t \in IntTypes : t.name = n

\* C1: every value v returned by draw satisfies min <= v <= max in the result
\* type, whatever the type, the range and the generator's outputs
DrawInRange ==
  last.op = "draw" =>
    /\ Leq(dist.type, dist.min, last.value)
    /\ Leq(dist.type, last.value, dist.max)

\* C1 happens: bitmask_distribution<int>{ -23, 23 } rejected the raw output 2^32 - 1
\* (63 after masking), accepted 5 and returned -18
DrawInRangeWitness ==
  /\ last.op = "draw"
  /\ dist.type.name = "int"
  /\ dist.min = BvNeg(BvNat(23, 32))
  /\ dist.max = BvNat(23, 32)
  /\ last.used = 2
  /\ last.value = BvNeg(BvNat(18, 32))

\* the raw outputs a generator of the range type's width can produce, for a
\* range type of 8 bits
AllRaw8 == [1..8 -> {0, 1}]

\* the raw outputs for which draw returns v, when the mask is shifted by n
RawHits(v, n) ==
  {g \in AllRaw8 : \E r \in {Draw(dist, <<g>>, n)} : r.done /\ r.value = v}

\* C2: draw has no modulo bias: every value of [min, max] is the accepted result
\* of the same, nonzero, number of raw generator outputs (stated for the 8-bit
\* types, whose raw outputs can all be enumerated)
NoModuloBias ==
  dist.type.bits = 8 =>
    \A n \in ShiftCounts(dist.type, dist.range) :
      \A v \in AllRaw8 :
        (Leq(dist.type, dist.min, v) /\ Leq(dist.type, v, dist.max)) =>
          /\ Cardinality(RawHits(v, n)) > 0
          /\ Cardinality(RawHits(v, n)) = Cardinality(RawHits(dist.min, n))

\* m is 2^k - 1 for some k: no set bit above a clear one
IsLowOnes(m) == \A i \in 1..(Len(m) - 1) : m[i + 1] = 1 => m[i] = 1

\* C3: for every result type and every range # 0 the mask computed in draw is the
\* smallest 2^k - 1 that is >= range: mask >> 1 < range <= mask
MaskIsSmallest ==
  (last.op = "draw" /\ dist.range # BvZero(dist.type.bits)) =>
    /\ IsLowOnes(last.mask)
    /\ ~BvULess(last.mask, dist.range)
    /\ BvULess(BvShr(last.mask, 1), dist.range)

\* ---- the statistics engine's inputs ----
\* the longest sample sequence stats_t is given
MaxSamples == 7

\* raw samples, in nanoseconds
StatSamples == {D(1), D(2), D(3), D(4)}

\* inner_loop_cnt and offset
StatArgs == {<<1, D(0)>>, <<2, D(1)>>}

SeqsUpTo(S, n) == UNION {[1..k -> S] : k \in 0..n}

InitStats ==
  /\ prog = "running"
  /\ obj = "stats"
  /\ dist = Idle
  /\ gen = <<>>
  /\ cfg = Idle
  /\ one = Idle
  /\ \E r \in SeqsUpTo(StatSamples, MaxSamples) : \E a \in StatArgs :
       inp = [results |-> r, inner_loop_cnt |-> a[1], offset |-> a[2]]
  /\ last = None

\* detail::stats_t s( results, inner_loop_cnt, offset );
ComputeStats ==
  /\ obj = "stats"
  /\ prog = "running"
  /\ last = None
  /\ \E st \in {stats_t(inp.results, inp.inner_loop_cnt, inp.offset)} :
       /\ last' = [op |-> "stats_t", st |-> st]
       /\ prog' = IF st.ub THEN "crashed" ELSE prog
  /\ UNCHANGED <<obj, dist, gen, cfg, one, inp>>

NextStats == ComputeStats

SpecStats == InitStats /\ [][NextStats]_vars

(***************************************************************************)
(* The statistics engine's claims                                          *)
(***************************************************************************)
\* the Method 3 reference, on an ascending sequence s counted from 1
RefMedian(s) ==
  IF Len(s) % 2 = 0
    THEN DDiv(DAdd(s[Len(s) \div 2], s[Len(s) \div 2 + 1]), D(2))
    ELSE s[(Len(s) + 1) \div 2]

RefQ1(s) ==
  IF Len(s) % 2 = 0 THEN RefMedian(SubSeq(s, 1, Len(s) \div 2))
  ELSE IF Len(s) % 4 = 1
    THEN DAdd(DMul(Quarter, s[(Len(s) - 1) \div 4]),
              DMul(ThreeQuarters, s[(Len(s) - 1) \div 4 + 1]))
  ELSE DAdd(DMul(ThreeQuarters, s[(Len(s) - 3) \div 4 + 1]),
            DMul(Quarter, s[(Len(s) - 3) \div 4 + 2]))

RefQ3(s) ==
  IF Len(s) % 2 = 0 THEN RefMedian(SubSeq(s, Len(s) \div 2 + 1, Len(s)))
  ELSE IF Len(s) % 4 = 1
    THEN DAdd(DMul(ThreeQuarters, s[3 * ((Len(s) - 1) \div 4) + 1]),
              DMul(Quarter, s[3 * ((Len(s) - 1) \div 4) + 2]))
  ELSE DAdd(DMul(Quarter, s[3 * ((Len(s) - 3) \div 4) + 2]),
            DMul(ThreeQuarters, s[3 * ((Len(s) - 3) \div 4) + 3]))

\* the samples of the call under test, normalized and then sorted
SortedNormalized == Sort(Normalize(inp.results, D(inp.inner_loop_cnt), inp.offset))

\* C9: for n >= 2 samples the quartiles are those of Method 3 over the sorted
\* normalized samples, every index read lies in [0, n-1], and [1,2,3,4] gives
\* Q1 = 1.5, median = 2.5, Q3 = 3.5
QuartilesAreMethod3 ==
  (last.op = "stats_t" /\ Len(inp.results) >= 2) =>
    /\ ~last.st.ub
    /\ QuartileReads(Len(inp.results)) \subseteq 0..(Len(inp.results) - 1)
    /\ last.st.q = <<RefQ1(SortedNormalized), RefMedian(SortedNormalized),
                     RefQ3(SortedNormalized)>>
    /\ SortedNormalized = <<D(1), D(2), D(3), D(4)>> =>
         last.st.q = <<<<3, 2>>, <<5, 2>>, <<7, 2>>>>

\* C9 happens: the statistics of the samples 3, 1, 4, 2 were computed
QuartilesWitness ==
  /\ last.op = "stats_t"
  /\ inp = [results |-> <<D(3), D(1), D(4), D(2)>>, inner_loop_cnt |-> 1, offset |-> D(0)]
  /\ last.st.q = <<<<3, 2>>, <<5, 2>>, <<7, 2>>>>

\* C10: for exactly one sample, min = max = mean = median = Q1 = Q3 = the
\* normalized sample and variance = 0 (not the NaN a division by count - 1 gives)
SingleSampleStats ==
  (last.op = "stats_t" /\ Len(inp.results) = 1) =>
    /\ ~last.st.ub
    /\ \A x \in {last.st.min, last.st.max, last.st.avg,
                 last.st.q[1], last.st.q[2], last.st.q[3]} :
         x = DSub(DDiv(inp.results[1], D(inp.inner_loop_cnt)), inp.offset)
    /\ last.st.variance = D(0)

\* C10 happens: the statistics of the one sample 3 with divisor 2 and offset 1
SingleSampleWitness ==
  /\ last.op = "stats_t"
  /\ inp = [results |-> <<D(3)>>, inner_loop_cnt |-> 2, offset |-> D(1)]
  /\ last.st.avg = <<1, 2>>
  /\ last.st.variance = D(0)

(***************************************************************************)
(* The harnesses' claims                                                   *)
(***************************************************************************)
\* C4: after config::run returned, the closure has been invoked exactly
\* inner x outer times by that run and the sample sequence holds exactly outer
\* samples, whatever was called before
RunCounts ==
  (last.op = "run" /\ last.outcome = "returned") =>
    /\ last.calls = cfg.inner_loop_cnt * cfg.outer_loop_cnt
    /\ Len(cfg.results) = cfg.outer_loop_cnt

\* C4 happens: cfg.i( 2 ).o( 3 ).run( ... ) invoked the closure 6 times and left
\* 3 samples
RunCountsWitness ==
  /\ last.op = "run"
  /\ last.outcome = "returned"
  /\ cfg.inner_loop_cnt = 2
  /\ cfg.outer_loop_cnt = 3
  /\ last.calls = 6
  /\ Len(cfg.results) = 3

\* C5: cached statistics are those of the current samples, inner-loop count and
\* offset, and every call of i, o, offset or run leaves the cache empty
StatsNeverStale ==
  obj = "config" =>
    /\ cfg.cached_stats # NoStats =>
         cfg.cached_stats = stats_t(cfg.results, cfg.inner_loop_cnt, cfg.offset)
    /\ last.op \in {"i", "o", "offset", "run"} => cfg.cached_stats = NoStats

\* C5 happens: statistics were computed and cached after a run and a call of
\* offset( 1 )
StatsNeverStaleWitness ==
  /\ obj = "config"
  /\ last.op = "stats"
  /\ cfg.cached_stats # NoStats
  /\ cfg.offset = D(1)
  /\ Len(cfg.results) = 2

\* the run of either harness during which the closure threw
ClosureThrew == last.op \in {"run", "oneshot_run"} /\ last.threw

\* C6 as stated: an exception thrown by the closure during run propagates to the
\* caller of run, who can catch it
ClosureThrowPropagates ==
  ClosureThrew => (last.outcome = "exception" /\ prog = "running")

\* C6 as amended: an exception thrown by the closure during run is not caught by
\* the harness, and run does not return; run being noexcept, the program is
\* terminated and the caller of run never sees the exception
ClosureThrowTerminates ==
  ClosureThrew => (last.outcome = "terminated" /\ prog = "terminated")

\* C6 happens: the closure threw at its second invocation in config::run
ClosureThrowWitness ==
  /\ last.op = "run"
  /\ last.threw
  /\ last.calls = 2
  /\ prog = "terminated"

\* what a line of a report is about
LineKind(line) ==
  IF line = <<>> THEN "blank"
  ELSE IF line[1] = "[benchmark | " THEN "name"
  ELSE IF line[1] = "  " THEN line[2]
  ELSE line[3]

NotBlank(kind) == kind # "blank"

LineKinds(os) == SelectSeq([k \in 1..Len(os) |-> LineKind(os[k])], NotBlank)

\* C7: config::report_to writes, in this order, the name, the total time, the
\* average, the standard deviation, the offset exactly when it is nonzero, and
\* the begin and end resource snapshots
ReportHasSnapshots ==
  (last.op = "report_to" /\ prog = "running") =>
    LineKinds(last.os) =
      <<"name", "/total = ", "/average = ", "/stddev = ">>
      \o (IF cfg.offset # D(0) THEN <<"/offset = ">> ELSE <<>>)
      \o LineKinds(ReportPerfc(cfg.perfc))

\* the delta_t line with the boundaries in the larger unit
ScaledDeltaInclusive(t) ==
  IF t = D(Giga) \/ DLess(D(Giga), t) THEN <<"  delta_t = ", DDiv(t, D(Giga)), "s">>
  ELSE IF t = D(Mega) \/ DLess(D(Mega), t) THEN <<"  delta_t = ", DDiv(t, D(Mega)), "ms">>
  ELSE IF t = D(Kilo) \/ DLess(D(Kilo), t) THEN <<"  delta_t = ", DDiv(t, D(Kilo)), "us">>
  ELSE <<"  delta_t = ", t, "ns">>

\* C8: oneshot::report_to reports t in seconds when t >= 1e9, in milliseconds
\* when 1e6 <= t < 1e9, in microseconds when 1e3 <= t < 1e6, in nanoseconds
\* otherwise
OneshotUnitScale ==
  (last.op = "oneshot_report_to" /\ one.delta_t # Indeterminate) =>
    last.os[2] = ScaledDeltaInclusive(one.delta_t)

\* C11: statistics over an empty sample sequence are a precondition failure that
\* an assertion signals: config::stats, average and report_to on a config with
\* no samples stop at the assertion and never go on to read a sample element
EmptyStatsAsserted ==
  (last.op \in {"stats", "average", "report_to"} /\ Len(cfg.results) = 0) =>
    prog = "asserted"

\* the steps of a run that matter to its caller: the closure's invocations, the
\* snapshots and the store to _delta_t
IsCounted(step) == step \in {"begin", "f", "delta_t", "end"}

\* C12: oneshot::run invokes the closure exactly once, takes exactly one begin
\* snapshot before it and exactly one end snapshot after it, and stores a single
\* elapsed time, the one measured around the invocation
OneshotRunsOnce ==
  (last.op = "oneshot_run" /\ last.outcome = "returned") =>
    /\ last.calls = 1
    /\ SelectSeq(last.steps, IsCounted) = <<"begin", "f", "delta_t", "end">>
    /\ one.delta_t = last.delta
    /\ one.perfc.rusage_begin = Snapshot(last.gb)
    /\ one.perfc.rusage_end = Snapshot(last.ge)

\* C12 happens: a run measured 1000001 ns around the one invocation and both
\* snapshots were taken
OneshotRunsOnceWitness ==
  /\ last.op = "oneshot_run"
  /\ last.outcome = "returned"
  /\ last.calls = 1
  /\ one.delta_t = D(Mega + 1)
  /\ one.perfc.rusage_begin # ZeroUsage
  /\ one.perfc.rusage_end # ZeroUsage

\* C13: a report_to that follows a report_to, with no configuration change and
\* no run in between, writes the same output again; it reuses the statistics
\* the first call cached and changes neither the samples, the loop counts nor
\* the offset
ReportToIdempotent ==
  [][(last.op = "report_to" /\ last'.op = "report_to" /\ prog' = "running") =>
       /\ last'.os = last.os
       /\ last'.reused
       /\ cfg'.cached_stats = cfg.cached_stats
       /\ cfg'.results = cfg.results
       /\ cfg'.inner_loop_cnt = cfg.inner_loop_cnt
       /\ cfg'.outer_loop_cnt = cfg.outer_loop_cnt
       /\ cfg'.offset = cfg.offset]_vars

\* C13 happens: a second report_to in a row, of two samples with offset 1
ReportToIdempotentWitness ==
  /\ prog = "running"
  /\ Len(cfg.results) = 2
  /\ cfg.offset = D(1)
  /\ last.op = "report_to"
  /\ last.after = "report_to"
  /\ last.reused

\* what the caller of a draw sees of it: whether it returned, the value returned
\* and the number of generator outputs consumed
Seen(r) == IF r.done THEN <<TRUE, r.value, r.used>> ELSE <<FALSE>>

\* C14: two draws made with the same (min, max) and generators in the same state
\* return the same value and consume the same number of generator outputs, in
\* every state a sequence of draws reaches, and the sampler is as constructed
\* after any number of draws
DrawDeterministic ==
  /\ dist = Construct(dist.type, dist.min, dist.max)
  /\ \A n1, n2 \in ShiftCounts(dist.type, dist.range) :
       \A r1 \in {Draw(dist, gen, n1)} : \A r2 \in {Draw(dist, gen, n2)} :
         (r1.done \/ r2.done) => Seen(r1) = Seen(r2)

\* the resource-usage queries of the last run that failed: begin's, then end's
FailedQueries ==
  SelectSeq(<<last.gb, last.ge>>, LAMBDA g : g.rc # 0)

\* C15: when getrusage fails in begin or end of a run, the snapshot concerned is
\* zeroed, each failure is written to the error sink, and the run goes on: the
\* closure is invoked inner x outer times and every sample is recorded
QueryFailureKeepsRun ==
  (last.op = "run" /\ ~last.threw /\ FailedQueries # <<>>) =>
    /\ last.gb.rc # 0 => cfg.perfc.rusage_begin = ZeroUsage
    /\ last.ge.rc # 0 => cfg.perfc.rusage_end = ZeroUsage
    /\ last.err = [k \in 1..Len(FailedQueries) |-> "getrusage() failed"]
    /\ last.outcome = "returned"
    /\ prog = "running"
    /\ last.calls = cfg.inner_loop_cnt * cfg.outer_loop_cnt
    /\ Len(cfg.results) = cfg.outer_loop_cnt

\* C15 happens: both queries of a run with inner 2 and outer 3 failed
QueryFailureWitness ==
  /\ last.op = "run"
  /\ last.gb.rc # 0
  /\ last.ge.rc # 0
  /\ Len(last.err) = 2
  /\ last.calls = 6
  /\ Len(cfg.results) = 3

\* C16: only offset( x ) changes the offset: run, i and o (and stats, average
\* and report_to) leave the configured offset as it is, so that the statistics
\* after cfg.offset( x ).run( ... ) are computed with offset x
OffsetStaysInEffect ==
  [][(obj = "config" /\ last'.op # "offset") => cfg'.offset = cfg.offset]_vars

\* C17: for a signed result type the constructor's max - min and the draw's
\* static_cast<result_type>( x ) + min never leave the signed range of the type
\* they are evaluated in, also for ranges wider than 2^(w-1)
NoSignedOverflow ==
  dist.type.signed =>
    /\ ~SubOverflows(dist.type, dist.max, dist.min)
    /\ last.op = "draw" => ~AddOverflows(dist.type, last.x, dist.min)

====
